---- MODULE Spec2Model ----
(***************************************************************************)
(* TTS gateway with Whisper alignment (src/gateway/main.py).               *)
(*                                                                         *)
(* The gateway is one asyncio process: every handler is an `async def`     *)
(* that runs on the single event loop and gives the loop up only at an     *)
(* `await` (the backend call in proxy_to_tts).  The variable `loop` holds  *)
(* the request whose handler currently runs on the event loop, 0 when the  *)
(* loop is free.  Strings are sequences of Unicode code points, byte        *)
(* strings are sequences of 0..255.                                        *)
(***************************************************************************)
EXTENDS Integers, Sequences, FiniteSets, TLC

VARIABLES
    pc,             \* position of each request's handler
    req,            \* the parsed request body of each request
    loop,           \* request running on the event loop, 0 = loop free
    whisper_model,  \* the global model handle, 0 = None
    disk,           \* temp files on disk: name -> content
    net,            \* state of the request's backend call: "idle", "sent"
    tts_response,   \* local of generate_speech_with_alignment
    audio_bytes,    \* local of both handlers, argument of the engine
    language,       \* language argument of the engine
    model,          \* local of transcribe_with_word_timestamps
    f,              \* the open NamedTemporaryFile, 0 = none
    temp_path,      \* local of transcribe_with_word_timestamps, 0 = unbound
    segments,       \* the lazy segment generator: the segments yielded so far
    words,          \* local list of transcribe_with_word_timestamps
    exc,            \* exception in flight in the request's handler
    resp,           \* the HTTP response of the request
    constructions,  \* history: WhisperModel constructions that succeeded
    constructFailed,\* history: a WhisperModel construction has failed
    built,          \* history: the request's acquire constructed the model
    engineCalls,    \* history: calls of transcribe_with_word_timestamps, per request
    acquires,       \* history: calls of get_whisper_model, per request
    created,        \* history: temp files created by the request's engine call
    backendCalls,   \* history: backend calls issued by the request
    heuristicRuns,  \* history: times the language heuristic ran, per request
    disconnected    \* the request's client has closed its connection

vars == <<pc, req, loop, whisper_model, disk, net, tts_response, audio_bytes,
          language, model, f, temp_path, segments, words, exc, resp,
          constructions, constructFailed, built, engineCalls,
          acquires, created, backendCalls, heuristicRuns, disconnected>>

(***************************************************************************)
(* Bounds of the model.                                                    *)
(***************************************************************************)
NumRequests == 2     \* request slots that can be in flight together
MaxTemp == 2         \* temp file names the directory can hold
MaxSegments == 2     \* segments the model yields for one audio
MaxTextLen == 2      \* length of the input texts of LangSpec

Requests == 1..NumRequests
TempNames == 1..MaxTemp

(***************************************************************************)
(* Program constants.                                                      *)
(***************************************************************************)
MinAudioBytes == 100
StatusOK == 200
StatusBadRequest == 400
StatusInternalError == 500
StatusUnavailable == 503

None == "None"       \* Python's None where a str is expected

(***************************************************************************)
(* Helpers on sequences.                                                   *)
(***************************************************************************)
RECURSIVE SeqsUpTo(_, _)
SeqsUpTo(S, n) ==
    IF n = 0 THEN {<<>>}
    ELSE LET shorter == SeqsUpTo(S, n - 1)
         IN  shorter \cup {Append(s, x) : s \in shorter, x \in S}

(***************************************************************************)
(* base64, as the standard library computes it.                            *)
(* b64encode: three bytes to four alphabet characters, '=' padding.        *)
(* b64decode (validate=False): a str that is not ASCII is a ValueError;    *)
(* characters outside the alphabet are discarded; decoding stops at a      *)
(* completed pad sequence; leftover characters are a binascii.Error.       *)
(***************************************************************************)
PadChar == 61

B64Char(v) ==
    IF v < 26 THEN 65 + v
    ELSE IF v < 52 THEN 97 + (v - 26)
    ELSE IF v < 62 THEN 48 + (v - 52)
    ELSE IF v = 62 THEN 43 ELSE 47

IsB64(c) ==
    \/ c \in 65..90
    \/ c \in 97..122
    \/ c \in 48..57
    \/ c = 43
    \/ c = 47

B64Value(c) ==
    IF c \in 65..90 THEN c - 65
    ELSE IF c \in 97..122 THEN c - 97 + 26
    ELSE IF c \in 48..57 THEN c - 48 + 52
    ELSE IF c = 43 THEN 62 ELSE 63

\* the i-th byte of b, 0 past its end
ByteAt(b, i) == IF i <= Len(b) THEN b[i] ELSE 0

\* the k-th (1..4) character of the group that encodes bytes b1, b2, b3, of
\* which only the first `have` exist
B64Group(b1, b2, b3, have, k) ==
    CASE k = 1 -> B64Char(b1 \div 4)
      [] k = 2 -> B64Char((b1 % 4) * 16 + b2 \div 16)
      [] k = 3 -> IF have < 2 THEN PadChar
                  ELSE B64Char((b2 % 16) * 4 + b3 \div 64)
      [] k = 4 -> IF have < 3 THEN PadChar ELSE B64Char(b3 % 64)

b64encode(b) ==
    [i \in 1..(4 * ((Len(b) + 2) \div 3)) |->
        LET g == (i - 1) \div 4
        IN  B64Group(ByteAt(b, 3 * g + 1), ByteAt(b, 3 * g + 2),
                     ByteAt(b, 3 * g + 3), Len(b) - 3 * g, ((i - 1) % 4) + 1)]

DecodeOk(b) == [ok |-> TRUE, bytes |-> b]
DecodeError == [ok |-> FALSE, bytes |-> <<>>]

\* the decoder's state: position in the quad, bits left over, pads seen since
\* the last data character, bytes produced, and whether a completed pad
\* sequence has ended the parse
A2bStart == [quad_pos |-> 0, leftchar |-> 0, pads |-> 0, out |-> <<>>,
             done |-> FALSE]

\* one turn of the loop of binascii.a2b_base64 over character c
A2bStep(st, c) ==
    IF st.done THEN st
    ELSE IF c = PadChar THEN
        IF st.quad_pos >= 2 /\ st.quad_pos + st.pads + 1 >= 4
        THEN [st EXCEPT !.done = TRUE]
        ELSE IF st.quad_pos >= 2 THEN [st EXCEPT !.pads = @ + 1] ELSE st
    ELSE IF ~IsB64(c) THEN st
    ELSE
        LET v == B64Value(c) IN
        CASE st.quad_pos = 0 ->
                [st EXCEPT !.quad_pos = 1, !.leftchar = v, !.pads = 0]
          [] st.quad_pos = 1 ->
                [st EXCEPT !.quad_pos = 2, !.leftchar = v % 16, !.pads = 0,
                           !.out = Append(@, st.leftchar * 4 + v \div 16)]
          [] st.quad_pos = 2 ->
                [st EXCEPT !.quad_pos = 3, !.leftchar = v % 4, !.pads = 0,
                           !.out = Append(@, st.leftchar * 16 + v \div 4)]
          [] st.quad_pos = 3 ->
                [st EXCEPT !.quad_pos = 0, !.leftchar = 0, !.pads = 0,
                           !.out = Append(@, st.leftchar * 64 + v)]

\* the loop over s[lo..hi], from state st; the state after the first half is
\* computed before the second half starts
RECURSIVE A2bLoop(_, _, _, _)
A2bLoop(s, lo, hi, st) ==
    IF lo > hi THEN st
    ELSE IF lo = hi THEN A2bStep(st, s[lo])
    ELSE LET mid == (lo + hi) \div 2
         IN  CHOOSE final \in { A2bLoop(s, mid + 1, hi, left) :
                                  left \in {A2bLoop(s, lo, mid, st)} } : TRUE

a2b_base64(s) ==
    LET st == A2bLoop(s, 1, Len(s), A2bStart)
    IN  IF ~st.done /\ st.quad_pos # 0 THEN DecodeError ELSE DecodeOk(st.out)

b64decode(s) ==
    IF \E i \in DOMAIN s : s[i] > 127 THEN DecodeError
    ELSE a2b_base64(s)

(***************************************************************************)
(* httpx Response.text: the body decoded as UTF-8 with errors="replace".   *)
(* The bodies of the model are ASCII bytes and lone bytes >= 128, which    *)
(* decode to U+FFFD each.                                                  *)
(***************************************************************************)
ReplacementChar == 65533

ResponseText(content) ==
    [i \in DOMAIN content |->
        IF content[i] < 128 THEN content[i] ELSE ReplacementChar]

(***************************************************************************)
(* The language heuristic of generate_speech_with_alignment.               *)
(***************************************************************************)
HiraganaLo == 12352
HiraganaHi == 12447
KatakanaLo == 12448
KatakanaHi == 12543
CJKLo == 19968
CJKHi == 40959

IsKana(c) ==
    \/ (HiraganaLo <= c /\ c <= HiraganaHi)
    \/ (KatakanaLo <= c /\ c <= KatakanaHi)

IsCJK(c) == CJKLo <= c /\ c <= CJKHi

\* DetectLanguage with the two tests in the other order
DetectLanguageIdeographsFirst(input) ==
    IF \E i \in DOMAIN input : IsCJK(input[i]) THEN "zh"
    ELSE IF \E i \in DOMAIN input : IsKana(input[i]) THEN "ja"
    ELSE "en"

DetectLanguage(input) ==
    IF \E i \in DOMAIN input : IsKana(input[i]) THEN "ja"
    ELSE IF \E i \in DOMAIN input : IsCJK(input[i]) THEN "zh"
    ELSE "en"

\* `if not language`: None and the empty string are both falsy
Falsy(lang) == lang = None \/ lang = ""

ResolveLanguage(lang, input) ==
    IF Falsy(lang) THEN DetectLanguage(input) ELSE lang

(***************************************************************************)
(* Word post-processing of transcribe_with_word_timestamps.                *)
(* Times are in units of 0.0001 s; round(x, 3) keeps a multiple of 10,     *)
(* ties going to the even millisecond.  str.strip() drops the whitespace   *)
(* at both ends.                                                           *)
(***************************************************************************)
IsSpace(c) == c \in {9, 10, 11, 12, 13, 32}

RECURSIVE lstrip(_)
lstrip(s) ==
    IF Len(s) > 0 /\ IsSpace(s[1]) THEN lstrip(Tail(s)) ELSE s

RECURSIVE rstrip(_)
rstrip(s) ==
    IF Len(s) > 0 /\ IsSpace(s[Len(s)])
    THEN rstrip(SubSeq(s, 1, Len(s) - 1)) ELSE s

strip(s) == rstrip(lstrip(s))

Round3(t) ==
    LET ms == t \div 10
        rest == t % 10
    IN  IF rest < 5 THEN ms * 10
        ELSE IF rest > 5 THEN (ms + 1) * 10
        ELSE IF ms % 2 = 0 THEN ms * 10 ELSE (ms + 1) * 10

\* WordTiming keeping only the whole milliseconds inside the word: the start
\* rounded up, the end rounded down
WordTimingInside(w) ==
    [word |-> strip(w.word),
     start |-> ((w.start + 9) \div 10) * 10,
     end |-> (w.end \div 10) * 10]

WordTiming(w) ==
    [word |-> strip(w.word), start |-> Round3(w.start), end |-> Round3(w.end)]

\* the body of the loop over one segment: `if segment.words:` then append each
RECURSIVE AppendWords(_, _)
AppendWords(ws, segwords) ==
    IF Len(segwords) = 0 THEN ws
    ELSE AppendWords(Append(ws, WordTiming(Head(segwords))), Tail(segwords))

(***************************************************************************)
(* Inputs and environment outcomes.                                        *)
(***************************************************************************)
\* a byte string of n bytes
Bytes(n) == [i \in 1..n |-> (i * 37 + 11) % 256]

\* "not-valid-base64!!!", the malformed string of test_error_handling
NotValidBase64 ==
    <<110, 111, 116, 45, 118, 97, 108, 105, 100, 45, 98, 97, 115, 101, 54,
      52, 33, 33, 33>>

\* audio_file values of align requests
AudioFiles ==
    { b64encode(Bytes(MinAudioBytes \div 2)),     \* the 50-byte buffer of the test
      b64encode(Bytes(MinAudioBytes - 1)),
      b64encode(Bytes(MinAudioBytes)),
      b64encode(Bytes(MinAudioBytes + 1)),
      \* one character cut off a valid encoding of enough bytes
      SubSeq(b64encode(Bytes(MinAudioBytes)), 1, 135),
      NotValidBase64,
      <<33, 33, 33, 33>>,                         \* "!!!!": decodes to b""
      <<233>> }                                   \* a non-ASCII str

\* language codes a request carries: absent, empty, or a code
Hints == {None, "", "fr"}

\* input texts: "Hi", kana then ideograph, ideographs
Texts == { <<72, 105>>, <<12371, 20320>>, <<20320, 22909>> }

\* code points at the ends of the ranges the heuristic tests, and around them
BoundaryChars ==
    { 72, HiraganaLo - 1, HiraganaLo, KatakanaHi, KatakanaHi + 1,
      CJKLo - 1, CJKLo, CJKHi, CJKHi + 1 }

WideTexts == SeqsUpTo(BoundaryChars, MaxTextLen)

Formats == {"mp3", "wav"}

NoRequest ==
    [kind |-> "none", audio_file |-> <<>>, language |-> None,
     input |-> <<>>, response_format |-> ""]

ModelsRequest == [NoRequest EXCEPT !.kind = "models"]

AlignRequestsOver(files, langs) ==
    { [NoRequest EXCEPT !.kind = "align", !.audio_file = a, !.language = l] :
        a \in files, l \in langs }

SwaRequestsOver(texts, hints, formats) ==
    { [NoRequest EXCEPT !.kind = "swa", !.input = t, !.language = l,
                        !.response_format = fmt] :
        t \in texts, l \in hints, fmt \in formats }

\* the requests of the runs with one request at a time
AllRequests ==
    {ModelsRequest} \cup AlignRequestsOver(AudioFiles, Hints)
    \cup SwaRequestsOver(Texts, Hints, Formats)

\* the requests of the concurrent runs: one malformed and one well-formed
\* align request, one speech_with_alignment request, the listing call
FewRequests ==
    {ModelsRequest}
    \cup AlignRequestsOver({NotValidBase64, b64encode(Bytes(MinAudioBytes))},
                           {None})
    \cup SwaRequestsOver({<<72, 105>>}, {None}, {"mp3"})

\* speech_with_alignment requests over every short text of boundary characters
TextRequests == SwaRequestsOver(WideTexts, Hints, {"mp3"})

Kinds == {"models", "align", "swa"}

\* what the TTS backend can answer: a status with a body, or no answer at all
BackendBodies ==
    { <<>>, <<255>>, <<73, 68>>, <<123, 255, 125>> }
BackendStatuses == {StatusOK, 404, StatusInternalError, StatusUnavailable}

NoReply == [ok |-> FALSE, status_code |-> 0, content |-> <<>>]

BackendReplies ==
    { [ok |-> TRUE, status_code |-> st, content |-> b] :
        st \in BackendStatuses, b \in BackendBodies }
    \cup {NoReply}     \* httpx.RequestError: connect failure, timeout

\* what the model can yield as one segment: its (raw) words, in time order
\* (none, or " Hi", " you " and ".").  The times that end in 5 are odd
\* multiples of 1/16 s, which a float holds exactly, so they are true ties of
\* round(x, 3): 0.5625 -> 0.562, 0.6875 -> 0.688.
RawWords ==
    { <<>>,
      << [word |-> <<32, 72, 105>>, start |-> 1234, end |-> 5625],
         [word |-> <<32, 121, 111, 117, 32>>, start |-> 5631, end |-> 5634],
         [word |-> <<46>>, start |-> 5634, end |-> 6875] >> }

\* the words of the k-th segment (k = 0, 1, ...) of a transcription: segments
\* follow each other in time, so the k-th starts after the ones before it
SegmentAt(raw, k) ==
    IF Len(raw) = 0 THEN raw
    ELSE LET offset == k * raw[Len(raw)].end
         IN  [i \in DOMAIN raw |->
                [raw[i] EXCEPT !.start = @ + offset, !.end = @ + offset]]

(***************************************************************************)
(* Exceptions and responses.                                               *)
(***************************************************************************)
\* detail of an error: a fixed message, the text appended to it (arg), and the
\* str(e) of the exception formatted into it (err)
NoDetail == [msg |-> "", arg |-> <<>>, err |-> ""]
NoExc == [type |-> "none", status_code |-> 0, detail |-> NoDetail]

HTTPException(status, msg, arg) ==
    [type |-> "HTTPException", status_code |-> status,
     detail |-> [msg |-> msg, arg |-> arg, err |-> ""]]

\* httpx.RequestError raised by the backend call
RequestError ==
    [type |-> "RequestError", status_code |-> 0,
     detail |-> [NoDetail EXCEPT !.err = "request error"]]

\* any other exception, with the text str(e) gives
Exception(text) ==
    [type |-> "Exception", status_code |-> 0,
     detail |-> [NoDetail EXCEPT !.err = text]]

NoResponse ==
    [status |-> 0, kind |-> "none", detail |-> NoDetail, content |-> <<>>,
     audio |-> <<>>, words |-> <<>>, format |-> ""]

\* the response FastAPI makes of a raised HTTPException
ErrorResponse(e) ==
    [NoResponse EXCEPT !.status = e.status_code, !.kind = "error",
                       !.detail = e.detail]

\* the text of a fixed message
MessageChars(msg) ==
    CASE msg = "TTS generation failed: " ->
            <<84, 84, 83, 32, 103, 101, 110, 101, 114, 97, 116, 105, 111, 110,
              32, 102, 97, 105, 108, 101, 100, 58, 32>>
      [] msg = "TTS service unavailable" ->
            <<84, 84, 83, 32, 115, 101, 114, 118, 105, 99, 101, 32, 117, 110,
              97, 118, 97, 105, 108, 97, 98, 108, 101>>
      [] msg = "Audio file too small" ->
            <<65, 117, 100, 105, 111, 32, 102, 105, 108, 101, 32, 116, 111,
              111, 32, 115, 109, 97, 108, 108>>
      [] OTHER -> <<>>

\* the body of the response: for an error {"detail":"<message><text>"} (the
\* details compared here hold no character JSON escapes), for a pass-through
\* the backend's bytes
ResponseBody(response) ==
    IF response.kind = "raw" THEN response.content
    ELSE <<123, 34, 100, 101, 116, 97, 105, 108, 34, 58, 34>>
         \o MessageChars(response.detail.msg) \o response.detail.arg
         \o <<34, 125>>

NoTtsResponse == [status_code |-> 0, content |-> <<>>]

(***************************************************************************)
(* The initial state: no request, no model, no temp file.                  *)
(***************************************************************************)
Init ==
    /\ pc = [r \in Requests |-> "idle"]
    /\ req = [r \in Requests |-> NoRequest]
    /\ loop = 0
    /\ whisper_model = 0
    /\ disk = << >>
    /\ net = [r \in Requests |-> "idle"]
    /\ tts_response = [r \in Requests |-> NoTtsResponse]
    /\ audio_bytes = [r \in Requests |-> <<>>]
    /\ language = [r \in Requests |-> None]
    /\ model = [r \in Requests |-> 0]
    /\ f = [r \in Requests |-> 0]
    /\ temp_path = [r \in Requests |-> 0]
    /\ segments = [r \in Requests |-> <<>>]
    /\ words = [r \in Requests |-> <<>>]
    /\ exc = [r \in Requests |-> NoExc]
    /\ resp = [r \in Requests |-> NoResponse]
    /\ constructions = 0
    /\ constructFailed = FALSE
    /\ built = [r \in Requests |-> FALSE]
    /\ engineCalls = [r \in Requests |-> 0]
    /\ acquires = [r \in Requests |-> 0]
    /\ created = [r \in Requests |-> {}]
    /\ backendCalls = [r \in Requests |-> 0]
    /\ heuristicRuns = [r \in Requests |-> 0]
    /\ disconnected = [r \in Requests |-> FALSE]

(***************************************************************************)
(* Requests arrive and are dispatched to their handler.                    *)
(***************************************************************************)
\* a client sends a request to one of the three endpoints
Receive(r) ==
    /\ pc[r] = "idle"
    /\ \E k \in Kinds :
        req' = [req EXCEPT ![r] = [NoRequest EXCEPT !.kind = k]]
    /\ pc' = [pc EXCEPT ![r] = "queued"]
    /\ UNCHANGED <<loop, whisper_model, disk, net, tts_response, audio_bytes,
                   language, model, f, temp_path, segments, words, exc, resp,
                   constructions, constructFailed, built, engineCalls,
                   acquires, created, backendCalls, heuristicRuns,
                   disconnected>>

Entry(kind) ==
    CASE kind = "models" -> "list_models"
      [] kind = "align" -> "align_decode"
      [] kind = "swa" -> "swa_proxy"

\* the free event loop takes a queued request: the body is parsed into the
\* request model and the handler starts
DispatchFrom(r, requests) ==
    /\ pc[r] = "queued"
    /\ loop = 0
    /\ \E q \in requests :
        /\ q.kind = req[r].kind
        /\ req' = [req EXCEPT ![r] = q]
    /\ loop' = r
    /\ pc' = [pc EXCEPT ![r] = Entry(req[r].kind)]
    /\ UNCHANGED <<whisper_model, disk, net, tts_response, audio_bytes,
                   language, model, f, temp_path, segments, words, exc, resp,
                   constructions, constructFailed, built, engineCalls,
                   acquires, created, backendCalls, heuristicRuns,
                   disconnected>>

Dispatch(r) == DispatchFrom(r, FewRequests)

DispatchAny(r) == DispatchFrom(r, AllRequests)

(***************************************************************************)
(* GET /v1/models: list_models.                                            *)
(***************************************************************************)
\* `await proxy_to_tts("/v1/models")`: the call is sent, the loop is given up
ListModels(r) ==
    /\ pc[r] = "list_models"
    /\ loop = r
    /\ net' = [net EXCEPT ![r] = "sent"]
    /\ backendCalls' = [backendCalls EXCEPT ![r] = @ + 1]
    /\ pc' = [pc EXCEPT ![r] = "list_await"]
    /\ loop' = 0
    /\ UNCHANGED <<req, whisper_model, disk, tts_response, audio_bytes,
                   language, model, f, temp_path, segments, words, exc, resp,
                   constructions, constructFailed, built, engineCalls,
                   acquires, created, heuristicRuns, disconnected>>

\* the backend has answered (or failed) and the free loop resumes the handler,
\* which returns at once
ListModelsResume(r) ==
    /\ pc[r] = "list_await"
    /\ net[r] = "sent"
    /\ loop = 0
    /\ \E reply \in BackendReplies :
        resp' = [resp EXCEPT ![r] =
            IF reply.ok
            THEN [NoResponse EXCEPT !.status = reply.status_code,
                                    !.kind = "raw", !.content = reply.content]
            ELSE ErrorResponse(HTTPException(StatusUnavailable,
                                             "TTS service unavailable", <<>>))]
    /\ net' = [net EXCEPT ![r] = "idle"]
    /\ pc' = [pc EXCEPT ![r] = "done"]
    /\ loop' = r
    /\ UNCHANGED <<req, whisper_model, disk, tts_response, audio_bytes,
                   language, model, f, temp_path, segments, words, exc,
                   constructions, constructFailed, built, engineCalls,
                   acquires, created, backendCalls, heuristicRuns,
                   disconnected>>

(***************************************************************************)
(* get_whisper_model.                                                      *)
(***************************************************************************)
\* where an exception leaving the engine lands: the caller's except clauses
Except(r) == IF req[r].kind = "align" THEN "align_except" ELSE "swa_except"

\* where the engine returns to
Return(r) == IF req[r].kind = "align" THEN "align_return" ELSE "swa_return"

\* `if whisper_model is None:` else `return whisper_model`
GetWhisperModel(r) ==
    /\ pc[r] = "get_whisper_model"
    /\ loop = r
    /\ acquires' = [acquires EXCEPT ![r] = @ + 1]
    /\ IF whisper_model = 0
       THEN /\ pc' = [pc EXCEPT ![r] = "construct"]
            /\ model' = model
       ELSE /\ pc' = [pc EXCEPT ![r] = "tempfile"]
            /\ model' = [model EXCEPT ![r] = whisper_model]
    /\ UNCHANGED <<req, loop, whisper_model, disk, net, tts_response,
                   audio_bytes, language, f, temp_path, segments, words, exc,
                   resp, constructions, constructFailed, built, engineCalls,
                   created, backendCalls, heuristicRuns, disconnected>>

\* Construct without `global whisper_model`: the handle is bound to a local
ConstructLocal(r) ==
    /\ pc[r] = "construct"
    /\ loop = r
    /\ \/ /\ constructions' = constructions + 1
          /\ model' = [model EXCEPT ![r] = constructions + 1]
          /\ built' = [built EXCEPT ![r] = TRUE]
          /\ pc' = [pc EXCEPT ![r] = "tempfile"]
          /\ UNCHANGED <<constructFailed, exc>>
       \/ /\ constructFailed' = TRUE
          /\ exc' = [exc EXCEPT ![r] = Exception("model construction failed")]
          /\ pc' = [pc EXCEPT ![r] = Except(r)]
          /\ UNCHANGED <<constructions, model, built>>
    /\ UNCHANGED <<req, loop, whisper_model, disk, net, tts_response,
                   audio_bytes, language, f, temp_path, segments, words, resp,
                   engineCalls, acquires, created, backendCalls, heuristicRuns,
                   disconnected>>

\* `whisper_model = WhisperModel(...)`: a new handle, or the constructor raises
\* and the global stays None
Construct(r) ==
    /\ pc[r] = "construct"
    /\ loop = r
    /\ \/ /\ whisper_model' = constructions + 1
          /\ constructions' = constructions + 1
          /\ model' = [model EXCEPT ![r] = constructions + 1]
          /\ built' = [built EXCEPT ![r] = TRUE]
          /\ pc' = [pc EXCEPT ![r] = "tempfile"]
          /\ UNCHANGED <<constructFailed, exc>>
       \/ /\ constructFailed' = TRUE
          /\ exc' = [exc EXCEPT ![r] = Exception("model construction failed")]
          /\ pc' = [pc EXCEPT ![r] = Except(r)]
          /\ UNCHANGED <<whisper_model, constructions, model, built>>
    /\ UNCHANGED <<req, loop, disk, net, tts_response, audio_bytes, language,
                   f, temp_path, segments, words, resp, engineCalls, acquires,
                   created, backendCalls, heuristicRuns, disconnected>>

(***************************************************************************)
(* transcribe_with_word_timestamps, after `model = get_whisper_model()`.   *)
(***************************************************************************)
WithFile(d, n, content) ==
    [m \in DOMAIN d \cup {n} |-> IF m = n THEN content ELSE d[m]]

WithoutFile(d, n) == [m \in DOMAIN d \ {n} |-> d[m]]

\* TempFile opening one fixed path for writing, whether or not it exists
TempFileFixedName(r) ==
    /\ pc[r] = "tempfile"
    /\ loop = r
    /\ \/ /\ disk' = WithFile(disk, 1, <<>>)
          /\ f' = [f EXCEPT ![r] = 1]
          /\ created' = [created EXCEPT ![r] = @ \cup {1}]
          /\ pc' = [pc EXCEPT ![r] = "write"]
          /\ exc' = exc
       \/ /\ exc' = [exc EXCEPT ![r] = Exception("cannot create temp file")]
          /\ pc' = [pc EXCEPT ![r] = Except(r)]
          /\ UNCHANGED <<disk, f, created>>
    /\ UNCHANGED <<req, loop, whisper_model, net, tts_response, audio_bytes,
                   language, model, temp_path, segments, words, resp,
                   constructions, constructFailed, built, engineCalls,
                   acquires, backendCalls, heuristicRuns, disconnected>>

\* `with tempfile.NamedTemporaryFile(suffix=".mp3", delete=False) as f:`
\* creates a file under a name that is not in use, or raises
TempFile(r) ==
    /\ pc[r] = "tempfile"
    /\ loop = r
    /\ \/ \E n \in TempNames \ DOMAIN disk :
            /\ disk' = WithFile(disk, n, <<>>)
            /\ f' = [f EXCEPT ![r] = n]
            /\ created' = [created EXCEPT ![r] = @ \cup {n}]
            /\ pc' = [pc EXCEPT ![r] = "write"]
            /\ exc' = exc
       \/ /\ exc' = [exc EXCEPT ![r] = Exception("cannot create temp file")]
          /\ pc' = [pc EXCEPT ![r] = Except(r)]
          /\ UNCHANGED <<disk, f, created>>
    /\ UNCHANGED <<req, loop, whisper_model, net, tts_response, audio_bytes,
                   language, model, temp_path, segments, words, resp,
                   constructions, constructFailed, built, engineCalls,
                   acquires, backendCalls, heuristicRuns, disconnected>>

\* `f.write(audio_bytes)`, `temp_path = f.name` and the end of the with block,
\* which closes the file and keeps it (delete=False).  A failing write leaves
\* the with block by the exception: temp_path is never bound and the
\* try/finally below is never entered.
Write(r) ==
    /\ pc[r] = "write"
    /\ loop = r
    /\ \/ /\ disk' = WithFile(disk, f[r], audio_bytes[r])
          /\ temp_path' = [temp_path EXCEPT ![r] = f[r]]
          /\ pc' = [pc EXCEPT ![r] = "transcribe"]
          /\ exc' = exc
       \/ /\ exc' = [exc EXCEPT ![r] = Exception("write failed")]
          /\ pc' = [pc EXCEPT ![r] = Except(r)]
          /\ UNCHANGED <<disk, temp_path>>
    /\ f' = [f EXCEPT ![r] = 0]
    /\ UNCHANGED <<req, loop, whisper_model, net, tts_response, audio_bytes,
                   language, model, segments, words, resp, constructions,
                   constructFailed, built, engineCalls, acquires, created,
                   backendCalls, heuristicRuns, disconnected>>

\* `segments, info = model.transcribe(temp_path, ...)` and `words = []`: the
\* call returns a generator that has not run yet, or raises
Transcribe(r) ==
    /\ pc[r] = "transcribe"
    /\ loop = r
    /\ \/ /\ temp_path[r] \in DOMAIN disk
          /\ segments' = [segments EXCEPT ![r] = <<>>]
          /\ words' = [words EXCEPT ![r] = <<>>]
          /\ pc' = [pc EXCEPT ![r] = "segments"]
          /\ exc' = exc
       \/ /\ exc' = [exc EXCEPT ![r] = Exception("transcribe failed")]
          /\ pc' = [pc EXCEPT ![r] = "finally"]
          /\ UNCHANGED <<segments, words>>
    /\ UNCHANGED <<req, loop, whisper_model, disk, net, tts_response,
                   audio_bytes, language, model, f, temp_path, resp,
                   constructions, constructFailed, built, engineCalls,
                   acquires, created, backendCalls, heuristicRuns,
                   disconnected>>

\* one turn of `for segment in segments:`: the generator is exhausted
\* (`return words`), or yields the next segment, whose words are appended
\* (`if segment.words:`), or raises
Segments(r) ==
    /\ pc[r] = "segments"
    /\ loop = r
    /\ \/ /\ pc' = [pc EXCEPT ![r] = "finally"]
          /\ UNCHANGED <<segments, words, exc>>
       \/ /\ Len(segments[r]) < MaxSegments
          /\ \E raw \in RawWords :
                LET segment == SegmentAt(raw, Len(segments[r])) IN
                /\ words' = [words EXCEPT ![r] = AppendWords(@, segment)]
                /\ segments' = [segments EXCEPT ![r] = Append(@, segment)]
          /\ UNCHANGED <<pc, exc>>
       \/ /\ exc' = [exc EXCEPT ![r] = Exception("model failed")]
          /\ pc' = [pc EXCEPT ![r] = "finally"]
          /\ UNCHANGED <<segments, words>>
    /\ UNCHANGED <<req, loop, whisper_model, disk, net, tts_response,
                   audio_bytes, language, model, f, temp_path, resp,
                   constructions, constructFailed, built, engineCalls,
                   acquires, created, backendCalls, heuristicRuns,
                   disconnected>>

\* Finally with a `return words` of its own: the words collected so far are
\* returned whatever happened
FinallyReturnsWords(r) ==
    /\ pc[r] = "finally"
    /\ loop = r
    /\ IF temp_path[r] \in DOMAIN disk
       THEN /\ disk' = WithoutFile(disk, temp_path[r])
            /\ exc' = exc
            /\ pc' = [pc EXCEPT ![r] = Return(r)]
       ELSE /\ disk' = disk
            /\ exc' = [exc EXCEPT ![r] = Exception("no such file")]
            /\ pc' = [pc EXCEPT ![r] = Except(r)]
    /\ UNCHANGED <<req, loop, whisper_model, net, tts_response, audio_bytes,
                   language, model, f, temp_path, segments, words, resp,
                   constructions, constructFailed, built, engineCalls,
                   acquires, created, backendCalls, heuristicRuns,
                   disconnected>>

\* `finally: os.unlink(temp_path)`, then the return or the exception goes on
\* to the caller; unlinking a missing file raises FileNotFoundError
Finally(r) ==
    /\ pc[r] = "finally"
    /\ loop = r
    /\ IF temp_path[r] \in DOMAIN disk
       THEN /\ disk' = WithoutFile(disk, temp_path[r])
            /\ exc' = exc
            /\ pc' = [pc EXCEPT ![r] =
                        IF exc[r] = NoExc THEN Return(r) ELSE Except(r)]
       ELSE /\ disk' = disk
            /\ exc' = [exc EXCEPT ![r] = Exception("no such file")]
            /\ pc' = [pc EXCEPT ![r] = Except(r)]
    /\ UNCHANGED <<req, loop, whisper_model, net, tts_response, audio_bytes,
                   language, model, f, temp_path, segments, words, resp,
                   constructions, constructFailed, built, engineCalls,
                   acquires, created, backendCalls, heuristicRuns,
                   disconnected>>

(***************************************************************************)
(* POST /v1/audio/align: align_audio.                                      *)
(***************************************************************************)
\* `audio_bytes = base64.b64decode(request.audio_file)`, any exception of which
\* is raised again as a 400
AlignDecode(r) ==
    /\ pc[r] = "align_decode"
    /\ loop = r
    /\ LET d == b64decode(req[r].audio_file) IN
        IF d.ok
        THEN /\ audio_bytes' = [audio_bytes EXCEPT ![r] = d.bytes]
             /\ pc' = [pc EXCEPT ![r] = "align_size"]
             /\ exc' = exc
        ELSE /\ exc' = [exc EXCEPT ![r] =
                    HTTPException(StatusBadRequest,
                                  "Invalid base64 encoding: ", <<>>)]
             /\ pc' = [pc EXCEPT ![r] = "align_except"]
             /\ audio_bytes' = audio_bytes
    /\ UNCHANGED <<req, loop, whisper_model, disk, net, tts_response, language,
                   model, f, temp_path, segments, words, resp, constructions,
                   constructFailed, built, engineCalls, acquires, created,
                   backendCalls, heuristicRuns, disconnected>>

\* AlignSize with `<=` where the code has `<`
AlignSizeOffByOne(r) ==
    /\ pc[r] = "align_size"
    /\ loop = r
    /\ IF Len(audio_bytes[r]) <= MinAudioBytes
       THEN /\ exc' = [exc EXCEPT ![r] =
                    HTTPException(StatusBadRequest, "Audio file too small", <<>>)]
            /\ pc' = [pc EXCEPT ![r] = "align_except"]
            /\ UNCHANGED <<language, engineCalls>>
       ELSE /\ language' = [language EXCEPT ![r] = req[r].language]
            /\ engineCalls' = [engineCalls EXCEPT ![r] = @ + 1]
            /\ pc' = [pc EXCEPT ![r] = "get_whisper_model"]
            /\ exc' = exc
    /\ UNCHANGED <<req, loop, whisper_model, disk, net, tts_response,
                   audio_bytes, model, f, temp_path, segments, words, resp,
                   constructions, constructFailed, built, acquires, created,
                   backendCalls, heuristicRuns, disconnected>>

\* AlignSize pinning a language when the request has none
AlignSizeDefaultLanguage(r) ==
    /\ pc[r] = "align_size"
    /\ loop = r
    /\ IF Len(audio_bytes[r]) < MinAudioBytes
       THEN /\ exc' = [exc EXCEPT ![r] =
                    HTTPException(StatusBadRequest, "Audio file too small", <<>>)]
            /\ pc' = [pc EXCEPT ![r] = "align_except"]
            /\ UNCHANGED <<language, engineCalls>>
       ELSE /\ language' = [language EXCEPT ![r] =
                    IF Falsy(req[r].language) THEN "en" ELSE req[r].language]
            /\ engineCalls' = [engineCalls EXCEPT ![r] = @ + 1]
            /\ pc' = [pc EXCEPT ![r] = "get_whisper_model"]
            /\ exc' = exc
    /\ UNCHANGED <<req, loop, whisper_model, disk, net, tts_response,
                   audio_bytes, model, f, temp_path, segments, words, resp,
                   constructions, constructFailed, built, acquires, created,
                   backendCalls, heuristicRuns, disconnected>>

\* `if len(audio_bytes) < 100: raise HTTPException(400, ...)`, else the call
\* `transcribe_with_word_timestamps(audio_bytes, request.language)`
AlignSize(r) ==
    /\ pc[r] = "align_size"
    /\ loop = r
    /\ IF Len(audio_bytes[r]) < MinAudioBytes
       THEN /\ exc' = [exc EXCEPT ![r] =
                    HTTPException(StatusBadRequest, "Audio file too small", <<>>)]
            /\ pc' = [pc EXCEPT ![r] = "align_except"]
            /\ UNCHANGED <<language, engineCalls>>
       ELSE /\ language' = [language EXCEPT ![r] = req[r].language]
            /\ engineCalls' = [engineCalls EXCEPT ![r] = @ + 1]
            /\ pc' = [pc EXCEPT ![r] = "get_whisper_model"]
            /\ exc' = exc
    /\ UNCHANGED <<req, loop, whisper_model, disk, net, tts_response,
                   audio_bytes, model, f, temp_path, segments, words, resp,
                   constructions, constructFailed, built, acquires, created,
                   backendCalls, heuristicRuns, disconnected>>

\* AlignReturn answering an empty word list as a failure
AlignReturnNoWordsIsError(r) ==
    /\ pc[r] = "align_return"
    /\ loop = r
    /\ resp' = [resp EXCEPT ![r] =
            IF words[r] = <<>>
            THEN ErrorResponse(HTTPException(StatusInternalError,
                                             "Alignment failed: ", <<>>))
            ELSE [NoResponse EXCEPT !.status = StatusOK, !.kind = "align",
                                    !.words = words[r]]]
    /\ pc' = [pc EXCEPT ![r] = "done"]
    /\ UNCHANGED <<req, loop, whisper_model, disk, net, tts_response, audio_bytes,
                   language, model, f, temp_path, segments, words, exc,
                   constructions, constructFailed, built, engineCalls,
                   acquires, created, backendCalls, heuristicRuns,
                   disconnected>>

\* `return AlignResponse(words=words)`
AlignReturn(r) ==
    /\ pc[r] = "align_return"
    /\ loop = r
    /\ resp' = [resp EXCEPT ![r] =
            [NoResponse EXCEPT !.status = StatusOK, !.kind = "align",
                               !.words = words[r]]]
    /\ pc' = [pc EXCEPT ![r] = "done"]
    /\ UNCHANGED <<req, loop, whisper_model, disk, net, tts_response, audio_bytes,
                   language, model, f, temp_path, segments, words, exc,
                   constructions, constructFailed, built, engineCalls,
                   acquires, created, backendCalls, heuristicRuns,
                   disconnected>>

\* AlignHandler answering every failure as a client error
AlignHandlerBadRequest(e) ==
    IF e.type = "HTTPException" THEN e
    ELSE [HTTPException(StatusBadRequest, "Alignment failed: ", <<>>)
            EXCEPT !.detail.err = e.detail.err]

\* `except HTTPException: raise`, `except Exception as e: raise
\* HTTPException(500, f"Alignment failed: {e}")`
AlignHandler(e) ==
    IF e.type = "HTTPException" THEN e
    ELSE [HTTPException(StatusInternalError, "Alignment failed: ", <<>>)
            EXCEPT !.detail.err = e.detail.err]

AlignExcept(r) ==
    /\ pc[r] = "align_except"
    /\ loop = r
    /\ resp' = [resp EXCEPT ![r] = ErrorResponse(AlignHandler(exc[r]))]
    /\ pc' = [pc EXCEPT ![r] = "done"]
    /\ UNCHANGED <<req, loop, whisper_model, disk, net, tts_response, audio_bytes,
                   language, model, f, temp_path, segments, words, exc,
                   constructions, constructFailed, built, engineCalls,
                   acquires, created, backendCalls, heuristicRuns,
                   disconnected>>

(***************************************************************************)
(* POST /v1/audio/speech_with_alignment: generate_speech_with_alignment.   *)
(***************************************************************************)
\* Step 1, `tts_response = await proxy_to_tts("/v1/audio/speech", ...)`: the
\* call is sent and the loop is given up
SwaProxy(r) ==
    /\ pc[r] = "swa_proxy"
    /\ loop = r
    /\ net' = [net EXCEPT ![r] = "sent"]
    /\ backendCalls' = [backendCalls EXCEPT ![r] = @ + 1]
    /\ pc' = [pc EXCEPT ![r] = "swa_await"]
    /\ loop' = 0
    /\ UNCHANGED <<req, whisper_model, disk, tts_response, audio_bytes,
                   language, model, f, temp_path, segments, words, exc, resp,
                   constructions, constructFailed, built, engineCalls,
                   acquires, created, heuristicRuns, disconnected>>

\* the backend has answered, or the call has raised httpx.RequestError, and
\* the free loop resumes the handler
SwaResume(r) ==
    /\ pc[r] = "swa_await"
    /\ net[r] = "sent"
    /\ loop = 0
    /\ \E reply \in BackendReplies :
        IF reply.ok
        THEN /\ tts_response' = [tts_response EXCEPT ![r] =
                    [status_code |-> reply.status_code,
                     content |-> reply.content]]
             /\ pc' = [pc EXCEPT ![r] = "swa_status"]
             /\ exc' = exc
        ELSE /\ exc' = [exc EXCEPT ![r] = RequestError]
             /\ pc' = [pc EXCEPT ![r] = "swa_except"]
             /\ tts_response' = tts_response
    /\ net' = [net EXCEPT ![r] = "idle"]
    /\ loop' = r
    /\ UNCHANGED <<req, whisper_model, disk, audio_bytes, language, model, f,
                   temp_path, segments, words, resp, constructions,
                   constructFailed, built, engineCalls, acquires, created,
                   backendCalls, heuristicRuns, disconnected>>

\* SwaStatus without the status check: every answer is taken for audio
SwaStatusNoCheck(r) ==
    /\ pc[r] = "swa_status"
    /\ loop = r
    /\ audio_bytes' = [audio_bytes EXCEPT ![r] = tts_response[r].content]
    /\ pc' = [pc EXCEPT ![r] = "swa_language"]
    /\ UNCHANGED <<req, loop, whisper_model, disk, net, tts_response, language,
                   model, f, temp_path, segments, words, exc, resp,
                   constructions, constructFailed, built, engineCalls,
                   acquires, created, backendCalls, heuristicRuns,
                   disconnected>>

\* SwaStatus formatting the raw bytes (.content) where the code has .text
SwaStatusRawBody(r) ==
    /\ pc[r] = "swa_status"
    /\ loop = r
    /\ IF tts_response[r].status_code # StatusOK
       THEN /\ exc' = [exc EXCEPT ![r] =
                    HTTPException(tts_response[r].status_code,
                                  "TTS generation failed: ",
                                  tts_response[r].content)]
            /\ pc' = [pc EXCEPT ![r] = "swa_except"]
            /\ audio_bytes' = audio_bytes
       ELSE /\ audio_bytes' = [audio_bytes EXCEPT ![r] = tts_response[r].content]
            /\ pc' = [pc EXCEPT ![r] = "swa_language"]
            /\ exc' = exc
    /\ UNCHANGED <<req, loop, whisper_model, disk, net, tts_response, language,
                   model, f, temp_path, segments, words, resp, constructions,
                   constructFailed, built, engineCalls, acquires, created,
                   backendCalls, heuristicRuns, disconnected>>

\* `if tts_response.status_code != 200: raise HTTPException(status_code=
\* tts_response.status_code, detail=f"TTS generation failed:
\* {tts_response.text}")`, else `audio_bytes = tts_response.content`
SwaStatus(r) ==
    /\ pc[r] = "swa_status"
    /\ loop = r
    /\ IF tts_response[r].status_code # StatusOK
       THEN /\ exc' = [exc EXCEPT ![r] =
                    HTTPException(tts_response[r].status_code,
                                  "TTS generation failed: ",
                                  ResponseText(tts_response[r].content))]
            /\ pc' = [pc EXCEPT ![r] = "swa_except"]
            /\ audio_bytes' = audio_bytes
       ELSE /\ audio_bytes' = [audio_bytes EXCEPT ![r] = tts_response[r].content]
            /\ pc' = [pc EXCEPT ![r] = "swa_language"]
            /\ exc' = exc
    /\ UNCHANGED <<req, loop, whisper_model, disk, net, tts_response, language,
                   model, f, temp_path, segments, words, resp, constructions,
                   constructFailed, built, engineCalls, acquires, created,
                   backendCalls, heuristicRuns, disconnected>>

\* SwaLanguage running the heuristic on the produced audio
SwaLanguageFromAudio(r) ==
    /\ pc[r] = "swa_language"
    /\ loop = r
    /\ language' = [language EXCEPT ![r] =
                        ResolveLanguage(req[r].language, audio_bytes[r])]
    /\ heuristicRuns' = [heuristicRuns EXCEPT ![r] =
                            IF Falsy(req[r].language) THEN @ + 1 ELSE @]
    /\ engineCalls' = [engineCalls EXCEPT ![r] = @ + 1]
    /\ pc' = [pc EXCEPT ![r] = "get_whisper_model"]
    /\ UNCHANGED <<req, loop, whisper_model, disk, net, tts_response,
                   audio_bytes, model, f, temp_path, segments, words, exc,
                   resp, constructions, constructFailed, built, acquires,
                   created, backendCalls, disconnected>>

\* Step 2, `language = request.language`, `if not language:` the heuristic on
\* request.input, then the call `transcribe_with_word_timestamps(audio_bytes,
\* language)`
SwaLanguage(r) ==
    /\ pc[r] = "swa_language"
    /\ loop = r
    /\ language' = [language EXCEPT ![r] =
                        ResolveLanguage(req[r].language, req[r].input)]
    /\ heuristicRuns' = [heuristicRuns EXCEPT ![r] =
                            IF Falsy(req[r].language) THEN @ + 1 ELSE @]
    /\ engineCalls' = [engineCalls EXCEPT ![r] = @ + 1]
    /\ pc' = [pc EXCEPT ![r] = "get_whisper_model"]
    /\ UNCHANGED <<req, loop, whisper_model, disk, net, tts_response,
                   audio_bytes, model, f, temp_path, segments, words, exc,
                   resp, constructions, constructFailed, built, acquires,
                   created, backendCalls, disconnected>>

\* SwaReturn answering with the default format whatever the request asked for
SwaReturnDefaultFormat(r) ==
    /\ pc[r] = "swa_return"
    /\ loop = r
    /\ resp' = [resp EXCEPT ![r] =
            [NoResponse EXCEPT !.status = StatusOK, !.kind = "combined",
                               !.audio = b64encode(audio_bytes[r]),
                               !.words = words[r],
                               !.format = "mp3"]]
    /\ pc' = [pc EXCEPT ![r] = "done"]
    /\ UNCHANGED <<req, loop, whisper_model, disk, net, tts_response, audio_bytes,
                   language, model, f, temp_path, segments, words, exc,
                   constructions, constructFailed, built, engineCalls,
                   acquires, created, backendCalls, heuristicRuns,
                   disconnected>>

\* Step 3, `return SpeechWithAlignmentResponse(audio=base64.b64encode(
\* audio_bytes).decode("utf-8"), words=words, format=request.response_format)`
SwaReturn(r) ==
    /\ pc[r] = "swa_return"
    /\ loop = r
    /\ resp' = [resp EXCEPT ![r] =
            [NoResponse EXCEPT !.status = StatusOK, !.kind = "combined",
                               !.audio = b64encode(audio_bytes[r]),
                               !.words = words[r],
                               !.format = req[r].response_format]]
    /\ pc' = [pc EXCEPT ![r] = "done"]
    /\ UNCHANGED <<req, loop, whisper_model, disk, net, tts_response, audio_bytes,
                   language, model, f, temp_path, segments, words, exc,
                   constructions, constructFailed, built, engineCalls,
                   acquires, created, backendCalls, heuristicRuns,
                   disconnected>>

\* SwaHandler without the `except httpx.RequestError` clause
SwaHandlerNoRequestError(e) ==
    IF e.type = "HTTPException" THEN e
    ELSE [HTTPException(StatusInternalError, "Generation failed: ", <<>>)
            EXCEPT !.detail.err = e.detail.err]

\* `except HTTPException: raise`, `except httpx.RequestError: raise
\* HTTPException(503, "TTS service unavailable")`, `except Exception as e:
\* raise HTTPException(500, f"Generation failed: {e}")`
SwaHandler(e) ==
    IF e.type = "HTTPException" THEN e
    ELSE IF e.type = "RequestError"
    THEN HTTPException(StatusUnavailable, "TTS service unavailable", <<>>)
    ELSE [HTTPException(StatusInternalError, "Generation failed: ", <<>>)
            EXCEPT !.detail.err = e.detail.err]

\* SwaExcept sending the synthesis call a second time when the first could not
\* reach the backend
SwaExceptRetry(r) ==
    /\ pc[r] = "swa_except"
    /\ loop = r
    /\ IF exc[r].type = "RequestError" /\ backendCalls[r] < 2
       THEN /\ exc' = [exc EXCEPT ![r] = NoExc]
            /\ pc' = [pc EXCEPT ![r] = "swa_proxy"]
            /\ resp' = resp
       ELSE /\ resp' = [resp EXCEPT ![r] = ErrorResponse(SwaHandler(exc[r]))]
            /\ pc' = [pc EXCEPT ![r] = "done"]
            /\ exc' = exc
    /\ UNCHANGED <<req, loop, whisper_model, disk, net, tts_response, audio_bytes,
                   language, model, f, temp_path, segments, words,
                   constructions, constructFailed, built, engineCalls,
                   acquires, created, backendCalls, heuristicRuns,
                   disconnected>>

SwaExcept(r) ==
    /\ pc[r] = "swa_except"
    /\ loop = r
    /\ resp' = [resp EXCEPT ![r] = ErrorResponse(SwaHandler(exc[r]))]
    /\ pc' = [pc EXCEPT ![r] = "done"]
    /\ UNCHANGED <<req, loop, whisper_model, disk, net, tts_response, audio_bytes,
                   language, model, f, temp_path, segments, words, exc,
                   constructions, constructFailed, built, engineCalls,
                   acquires, created, backendCalls, heuristicRuns,
                   disconnected>>

(***************************************************************************)
(* The handler has returned or raised: the response is sent to the client, *)
(* the handler's frame is dropped and the event loop is free again.        *)
(***************************************************************************)
Close(r) ==
    /\ pc[r] = "done"
    /\ loop = r
    /\ loop' = 0
    /\ pc' = [pc EXCEPT ![r] = "idle"]
    /\ req' = [req EXCEPT ![r] = NoRequest]
    /\ tts_response' = [tts_response EXCEPT ![r] = NoTtsResponse]
    /\ audio_bytes' = [audio_bytes EXCEPT ![r] = <<>>]
    /\ language' = [language EXCEPT ![r] = None]
    /\ model' = [model EXCEPT ![r] = 0]
    /\ temp_path' = [temp_path EXCEPT ![r] = 0]
    /\ segments' = [segments EXCEPT ![r] = <<>>]
    /\ words' = [words EXCEPT ![r] = <<>>]
    /\ exc' = [exc EXCEPT ![r] = NoExc]
    /\ resp' = [resp EXCEPT ![r] = NoResponse]
    /\ built' = [built EXCEPT ![r] = FALSE]
    /\ engineCalls' = [engineCalls EXCEPT ![r] = 0]
    /\ acquires' = [acquires EXCEPT ![r] = 0]
    /\ created' = [created EXCEPT ![r] = {}]
    /\ backendCalls' = [backendCalls EXCEPT ![r] = 0]
    /\ heuristicRuns' = [heuristicRuns EXCEPT ![r] = 0]
    /\ disconnected' = [disconnected EXCEPT ![r] = FALSE]
    /\ UNCHANGED <<whisper_model, disk, net, f, constructions,
                   constructFailed>>

(***************************************************************************)
(* The handlers, from dispatch to the response.                            *)
(***************************************************************************)
Handler(r) ==
    \/ ListModels(r)
    \/ ListModelsResume(r)
    \/ GetWhisperModel(r)
    \/ Construct(r)
    \/ TempFile(r)
    \/ Write(r)
    \/ Transcribe(r)
    \/ Segments(r)
    \/ Finally(r)
    \/ AlignDecode(r)
    \/ AlignSize(r)
    \/ AlignReturn(r)
    \/ AlignExcept(r)
    \/ SwaProxy(r)
    \/ SwaResume(r)
    \/ SwaStatus(r)
    \/ SwaLanguage(r)
    \/ SwaReturn(r)
    \/ SwaExcept(r)
    \/ Close(r)

(***************************************************************************)
(* The gateway under concurrent requests, interleaved at the awaits.       *)
(***************************************************************************)
Next ==
    \E r \in Requests :
        \/ Receive(r)
        \/ Dispatch(r)
        \/ Handler(r)

Spec == Init /\ [][Next]_vars

(***************************************************************************)
(* The gateway serving one request after the other, over every request and *)
(* every answer of the backend and the model.                              *)
(***************************************************************************)
OneNext ==
    \/ Receive(1)
    \/ DispatchAny(1)
    \/ Handler(1)

OneSpec == Init /\ [][OneNext]_vars

(***************************************************************************)
(* One request after the other, with a client that may close its           *)
(* connection at any time after sending the request.  Nothing in the       *)
(* handlers looks at the connection.  The event loop runs a handler that   *)
(* is ready, and a backend call ends within its 60 s timeout, so a handler *)
(* that can take a step eventually takes one.                              *)
(***************************************************************************)
Disconnect(r) ==
    /\ pc[r] # "idle"
    /\ ~disconnected[r]
    /\ disconnected' = [disconnected EXCEPT ![r] = TRUE]
    /\ UNCHANGED <<pc, req, loop, whisper_model, disk, net, tts_response,
                   audio_bytes, language, model, f, temp_path, segments, words,
                   exc, resp, constructions, constructFailed, built,
                   engineCalls, acquires, created, backendCalls, heuristicRuns>>

ClientNext ==
    \/ Receive(1)
    \/ DispatchAny(1)
    \/ Handler(1)
    \/ Disconnect(1)

ClientSpec == Init /\ [][ClientNext]_vars /\ WF_vars(Handler(1))

(***************************************************************************)
(* The language resolution alone, over every short text of boundary        *)
(* characters: request 1 has passed Step 1 with a 200 from the backend.    *)
(***************************************************************************)
LangInit ==
    /\ \E q \in TextRequests, b \in BackendBodies :
        /\ req = [r \in Requests |-> IF r = 1 THEN q ELSE NoRequest]
        /\ tts_response = [r \in Requests |->
                IF r = 1 THEN [status_code |-> StatusOK, content |-> b]
                ELSE NoTtsResponse]
        /\ audio_bytes = [r \in Requests |-> IF r = 1 THEN b ELSE <<>>]
    /\ pc = [r \in Requests |-> IF r = 1 THEN "swa_language" ELSE "idle"]
    /\ loop = 1
    /\ whisper_model = 0
    /\ disk = << >>
    /\ net = [r \in Requests |-> "idle"]
    /\ language = [r \in Requests |-> None]
    /\ model = [r \in Requests |-> 0]
    /\ f = [r \in Requests |-> 0]
    /\ temp_path = [r \in Requests |-> 0]
    /\ segments = [r \in Requests |-> <<>>]
    /\ words = [r \in Requests |-> <<>>]
    /\ exc = [r \in Requests |-> NoExc]
    /\ resp = [r \in Requests |-> NoResponse]
    /\ constructions = 0
    /\ constructFailed = FALSE
    /\ built = [r \in Requests |-> FALSE]
    /\ engineCalls = [r \in Requests |-> 0]
    /\ acquires = [r \in Requests |-> 0]
    /\ created = [r \in Requests |-> {}]
    /\ backendCalls = [r \in Requests |-> IF r = 1 THEN 1 ELSE 0]
    /\ heuristicRuns = [r \in Requests |-> 0]
    /\ disconnected = [r \in Requests |-> FALSE]

LangNext == SwaLanguage(1)

LangSpec == LangInit /\ [][LangNext]_vars

(***************************************************************************)
(* Positions.                                                              *)
(***************************************************************************)
\* inside transcribe_with_word_timestamps
EnginePositions ==
    {"get_whisper_model", "construct", "tempfile", "write", "transcribe",
     "segments", "finally"}

InEngine(r) == pc[r] \in EnginePositions

\* inside the engine with `model` bound
ModelBound(r) == pc[r] \in {"tempfile", "write", "transcribe", "segments", "finally"}

\* the request's engine call has been made and has exited
EngineExited(r) == engineCalls[r] > 0 /\ ~InEngine(r)

\* the backend answered the request's synthesis call with a status other than 200
BackendRefused(r) ==
    /\ req[r].kind = "swa"
    /\ tts_response[r].status_code # 0
    /\ tts_response[r].status_code # StatusOK

(***************************************************************************)
(* C1: a speech_with_alignment request whose backend call returned a       *)
(* status other than 200 is answered with that status, and the Alignment   *)
(* Engine is never invoked for it: no engine call, no model acquisition,   *)
(* no temp file.                                                           *)
(***************************************************************************)
C1_BackendFailurePropagated ==
    \A r \in Requests :
        BackendRefused(r) =>
            /\ engineCalls[r] = 0
            /\ acquires[r] = 0
            /\ created[r] = {}
            /\ ~InEngine(r)
            /\ pc[r] = "done" => resp[r].status = tts_response[r].status_code

C1_Witness ==
    \E r \in Requests :
        /\ BackendRefused(r)
        /\ pc[r] = "done"
        /\ tts_response[r].status_code = 404
        /\ resp[r].status = 404
        /\ engineCalls[r] = 0

(***************************************************************************)
(* C2: once a call of transcribe_with_word_timestamps has exited, by       *)
(* return or by any failure, no temp file created by that call exists.     *)
(***************************************************************************)
C2_NoTempFileRemains ==
    \A r \in Requests :
        EngineExited(r) => created[r] \cap DOMAIN disk = {}

(***************************************************************************)
(* C3: in speech_with_alignment a backend connectivity failure is answered *)
(* 503 "TTS service unavailable" with the engine not invoked; a failure of *)
(* the engine after a successful synthesis is answered 500 "Generation      *)
(* failed"; a backend-reported status is answered "TTS generation failed". *)
(* No cause is answered with the response of another.                      *)
(***************************************************************************)
C3_FailureCategories ==
    \A r \in Requests :
        (req[r].kind = "swa" /\ pc[r] = "done") =>
            /\ exc[r].type = "RequestError" =>
                /\ resp[r].status = 503
                /\ resp[r].detail.msg = "TTS service unavailable"
                /\ engineCalls[r] = 0
                /\ tts_response[r].status_code = 0
            /\ exc[r].type = "Exception" =>
                /\ resp[r].status = 500
                /\ resp[r].detail.msg = "Generation failed: "
                /\ engineCalls[r] = 1
                /\ tts_response[r].status_code = 200
            /\ BackendRefused(r) =>
                /\ resp[r].status = tts_response[r].status_code
                /\ resp[r].detail.msg = "TTS generation failed: "
                /\ exc[r].type = "HTTPException"
            /\ exc[r].type = "none" => resp[r].status = 200

C3_Witness ==
    \E r \in Requests :
        /\ req[r].kind = "swa"
        /\ pc[r] = "done"
        /\ exc[r].type = "RequestError"
        /\ resp[r].status = 503
        /\ engineCalls[r] = 0

(***************************************************************************)
(* C4, as claimed: when the backend reports a non-success status, the      *)
(* speech_with_alignment response carries the backend's status code and    *)
(* the backend's body unchanged.                                           *)
(***************************************************************************)
C4_BodyVerbatim ==
    \A r \in Requests :
        (BackendRefused(r) /\ pc[r] = "done") =>
            /\ resp[r].status = tts_response[r].status_code
            /\ ResponseBody(resp[r]) = tts_response[r].content

(***************************************************************************)
(* C4, amended: the response carries the backend's status code, and its    *)
(* body is an error object whose detail is "TTS generation failed: "       *)
(* followed by the backend's body decoded as text; it is not the backend's *)
(* body.                                                                   *)
(***************************************************************************)
C4_StatusAndWrappedBody ==
    \A r \in Requests :
        (BackendRefused(r) /\ pc[r] = "done") =>
            /\ resp[r].status = tts_response[r].status_code
            /\ resp[r].kind = "error"
            /\ resp[r].detail.msg = "TTS generation failed: "
            /\ resp[r].detail.arg =
                  [i \in DOMAIN tts_response[r].content |->
                      IF tts_response[r].content[i] < 128
                      THEN tts_response[r].content[i] ELSE 65533]
            /\ ResponseBody(resp[r]) # tts_response[r].content

C4_Witness ==
    \E r \in Requests :
        /\ BackendRefused(r)
        /\ pc[r] = "done"
        /\ tts_response[r].content = <<123, 255, 125>>
        /\ resp[r].detail.arg = <<123, 65533, 125>>

(***************************************************************************)
(* C5: an align request whose audio_file fails base64 decoding is answered *)
(* 400 (decode failure); one whose decoded payload has fewer than 100      *)
(* bytes is answered 400 (too small); in both cases the engine is not      *)
(* invoked and no model is acquired.  A payload of 100 bytes or more       *)
(* reaches the engine, and a failure there is answered 500.                *)
(***************************************************************************)
C5_AlignValidation ==
    \A r \in Requests :
        (req[r].kind = "align" /\ pc[r] # "queued") =>
            LET d == b64decode(req[r].audio_file) IN
            /\ ~d.ok =>
                /\ engineCalls[r] = 0 /\ acquires[r] = 0
                /\ pc[r] = "done" =>
                    /\ resp[r].status = 400
                    /\ resp[r].detail.msg = "Invalid base64 encoding: "
            /\ (d.ok /\ Len(d.bytes) < 100) =>
                /\ engineCalls[r] = 0 /\ acquires[r] = 0
                /\ pc[r] = "done" =>
                    /\ resp[r].status = 400
                    /\ resp[r].detail.msg = "Audio file too small"
            /\ (d.ok /\ Len(d.bytes) >= 100 /\ pc[r] = "done") =>
                /\ engineCalls[r] = 1
                /\ exc[r] = NoExc => resp[r].status = 200
                /\ exc[r] # NoExc =>
                    /\ resp[r].status = 500
                    /\ resp[r].detail.msg = "Alignment failed: "

C5_Witness ==
    \E r \in Requests :
        /\ req[r].kind = "align"
        /\ pc[r] = "done"
        /\ Len(audio_bytes[r]) = 50
        /\ resp[r].status = 400
        /\ resp[r].detail.msg = "Audio file too small"
        /\ acquires[r] = 0

(***************************************************************************)
(* C6: under any interleaving of requests the model is constructed at most *)
(* once; the handle, once set, is the one every acquire returns, and it    *)
(* never changes (handle i is the i-th construction, 0 is None).           *)
(***************************************************************************)
C6_ModelConstructedOnce ==
    /\ constructions <= 1
    /\ whisper_model = constructions
    /\ \A r \in Requests :
        ModelBound(r) => (model[r] # 0 /\ model[r] = whisper_model)

\* a later acquire has returned the cached handle while another request is
\* in flight
C6_Witness ==
    \E r, q \in Requests :
        /\ q # r
        /\ ModelBound(r)
        /\ ~built[r]
        /\ model[r] = 1
        /\ constructions = 1
        /\ pc[q] \in {"swa_await", "list_await"}

(***************************************************************************)
(* C7, as claimed: once a construction has failed, no acquire attempts     *)
(* construction again, and the request that hit the failure is answered    *)
(* 500.                                                                    *)
(***************************************************************************)
C7_ConstructionNeverRetried ==
    /\ \A r \in Requests : pc[r] = "construct" => ~constructFailed
    /\ \A r \in Requests :
        (pc[r] = "done" /\ exc[r] = Exception("model construction failed"))
            => resp[r].status = 500

(***************************************************************************)
(* C7, amended: the request that hit a construction failure is answered    *)
(* 500 and makes no second attempt (one acquire per request, no temp       *)
(* file); the failure is not remembered: the handle stays unset, and while *)
(* no construction has succeeded every acquire attempts construction.      *)
(***************************************************************************)
C7_FailureAnsweredNotRemembered ==
    /\ \A r \in Requests : acquires[r] <= 1
    /\ \A r \in Requests :
        (pc[r] = "done" /\ exc[r] = Exception("model construction failed"))
            => (resp[r].status = 500 /\ created[r] = {})
    /\ constructions = 0 => whisper_model = 0
    /\ \A r \in Requests :
        (acquires[r] = 1 /\ constructions = 0) =>
            \/ pc[r] = "construct"
            \/ exc[r] = Exception("model construction failed")

\* a construction has succeeded after an earlier one failed
C7_Witness ==
    \E r \in Requests :
        /\ built[r]
        /\ constructFailed
        /\ whisper_model = 1

(***************************************************************************)
(* C8: while one request is inside model inference, a listing request      *)
(* that is queued can be dispatched, and one whose backend call is out can *)
(* be resumed and answered, without waiting for the inference to finish.   *)
(***************************************************************************)
C8_InferenceIsolated ==
    \A r, q \in Requests :
        (pc[r] = "segments" /\ q # r /\ req[q].kind = "models") =>
            /\ pc[q] = "queued" => ENABLED Dispatch(q)
            /\ pc[q] = "list_await" => ENABLED ListModelsResume(q)

(***************************************************************************)
(* C9: the language heuristic returns ja if any character of the text is   *)
(* in U+3040-U+309F or U+30A0-U+30FF, otherwise zh if any character is in  *)
(* U+4E00-U+9FFF, otherwise en; a text with both a kana character and an   *)
(* ideograph, in any order, resolves to ja.                                *)
(***************************************************************************)
C9_LanguageHeuristic ==
    \A r \in Requests :
        (req[r].kind = "swa" /\ engineCalls[r] > 0
            /\ req[r].language \in {None, ""}) =>
            LET text == req[r].input
                kana == \E i \in DOMAIN text :
                            text[i] \in 12352..12447 \/ text[i] \in 12448..12543
                ideograph == \E i \in DOMAIN text : text[i] \in 19968..40959
            IN  language[r] = IF kana THEN "ja"
                              ELSE IF ideograph THEN "zh" ELSE "en"

\* ideograph first, kana second
C9_Witness ==
    \E r \in Requests :
        /\ engineCalls[r] > 0
        /\ req[r].language = None
        /\ req[r].input = <<19968, 12543>>
        /\ language[r] = "ja"

(***************************************************************************)
(* C10, as claimed: the language handed to the engine is the request's     *)
(* hint whenever a hint is supplied, the heuristic not being consulted,    *)
(* and the heuristic's result on the input text exactly when the hint is   *)
(* absent.                                                                 *)
(***************************************************************************)
C10_HintOrHeuristic ==
    \A r \in Requests :
        (req[r].kind = "swa" /\ engineCalls[r] > 0) =>
            /\ req[r].language # None =>
                (language[r] = req[r].language /\ heuristicRuns[r] = 0)
            /\ req[r].language = None =>
                (language[r] = DetectLanguage(req[r].input)
                 /\ heuristicRuns[r] = 1)

(***************************************************************************)
(* C10, amended: the language handed to the engine is the request's hint   *)
(* whenever a non-empty hint is supplied, the heuristic not being          *)
(* consulted, and the heuristic's result on the input text exactly when    *)
(* the hint is absent or the empty string.                                 *)
(***************************************************************************)
C10_NonEmptyHintOrHeuristic ==
    \A r \in Requests :
        (req[r].kind = "swa" /\ engineCalls[r] > 0) =>
            /\ req[r].language \notin {None, ""} =>
                (language[r] = req[r].language /\ heuristicRuns[r] = 0)
            /\ req[r].language \in {None, ""} =>
                (language[r] = DetectLanguage(req[r].input)
                 /\ heuristicRuns[r] = 1)

\* an empty hint on a text with kana: the heuristic's ja is handed on
C10_Witness ==
    \E r \in Requests :
        /\ req[r].kind = "swa"
        /\ engineCalls[r] > 0
        /\ req[r].language = ""
        /\ req[r].input = <<12371, 20320>>
        /\ language[r] = "ja"
        /\ heuristicRuns[r] = 1

(***************************************************************************)
(* C11: every 200 response of speech_with_alignment has an audio field     *)
(* whose base64 decoding is exactly the bytes the backend returned for the *)
(* request's synthesis call, a words field that is the sequence the        *)
(* engine returned (one entry per word the model yielded, in the order     *)
(* yielded), and the request's response_format as format; the file the     *)
(* model reads holds those same bytes.                                     *)
(***************************************************************************)
C11_CombinedResult ==
    \A r \in Requests :
        req[r].kind = "swa" =>
            /\ pc[r] \in {"transcribe", "segments"} =>
                    disk[temp_path[r]] = tts_response[r].content
            /\ (pc[r] = "done" /\ resp[r].status = 200) =>
                /\ resp[r].kind = "combined"
                /\ b64decode(resp[r].audio).ok
                /\ b64decode(resp[r].audio).bytes = tts_response[r].content
                /\ resp[r].words = words[r]
                /\ LET RECURSIVE Before(_)
                       \* words yielded in the segments before the k-th
                       Before(k) ==
                           IF k = 1 THEN 0
                           ELSE Before(k - 1) + Len(segments[r][k - 1])
                   IN  /\ Len(resp[r].words) = Before(Len(segments[r]) + 1)
                       /\ \A k \in DOMAIN segments[r] :
                            \A i \in DOMAIN segments[r][k] :
                                LET raw == segments[r][k][i]
                                    w == resp[r].words[Before(k) + i]
                                IN  /\ w.start \in (raw.start - 5)..(raw.start + 5)
                                    /\ w.end \in (raw.end - 5)..(raw.end + 5)
                                    /\ w.start % 10 = 0
                                    /\ w.end % 10 = 0
                /\ resp[r].format = req[r].response_format

\* a one-byte body, which base64 pads, asked for as wav, with words
C11_Witness ==
    \E r \in Requests :
        /\ req[r].kind = "swa"
        /\ pc[r] = "done"
        /\ resp[r].status = 200
        /\ tts_response[r].content = <<255>>
        /\ resp[r].audio = <<47, 119, 61, 61>>
        /\ resp[r].format = "wav"
        /\ Len(resp[r].words) = 6

(***************************************************************************)
(* C12: the model yields its words in time order (start <= end in each     *)
(* word, starts non-decreasing from word to word and from segment to       *)
(* segment), and the sequence the engine builds from them keeps both       *)
(* orderings: rounding to 3 decimal places and flattening the segments     *)
(* into one list never put a start after its end or before the start of    *)
(* the word in front of it.  The same holds of the words of a response.    *)
(***************************************************************************)
C12_WordOrder ==
    \A r \in Requests :
        LET yielded == segments[r]
            rawOrdered ==
                /\ \A k \in DOMAIN yielded : \A i \in DOMAIN yielded[k] :
                        yielded[k][i].start <= yielded[k][i].end
                /\ \A k, l \in DOMAIN yielded :
                     \A i \in DOMAIN yielded[k], j \in DOMAIN yielded[l] :
                        (k < l \/ (k = l /\ i < j)) =>
                            yielded[k][i].start <= yielded[l][j].start
            Ordered(ws) ==
                /\ \A i \in DOMAIN ws : ws[i].start <= ws[i].end
                /\ \A i \in DOMAIN ws :
                        (i + 1) \in DOMAIN ws => ws[i].start <= ws[i + 1].start
        IN  /\ rawOrdered
            /\ Ordered(words[r])
            /\ Ordered(resp[r].words)

\* two segments flattened; a word whose start and end round to the same
\* millisecond, and the word after it, whose start rounds down to that of the
\* word before
C12_Witness ==
    \E r \in Requests :
        /\ pc[r] = "done"
        /\ resp[r].status = 200
        /\ Len(segments[r]) = 2
        /\ Len(resp[r].words) = 6
        /\ segments[r][1][2].start < segments[r][1][2].end
        /\ resp[r].words[2].start = resp[r].words[2].end
        /\ segments[r][1][2].start < segments[r][1][3].start
        /\ resp[r].words[2].start = resp[r].words[3].start
        /\ resp[r].words[3].end < resp[r].words[4].start

(***************************************************************************)
(* C13: when the model has yielded no segment, or only segments without    *)
(* words, the engine's word list is empty, its call returns without an     *)
(* exception of its own making, and the align and speech_with_alignment    *)
(* operations answer 200 with an empty words list.                         *)
(***************************************************************************)
C13_ZeroWordsIsSuccess ==
    \A r \in Requests :
        LET noWords == \A k \in DOMAIN segments[r] : Len(segments[r][k]) = 0
        IN  /\ (pc[r] \in {"segments", "finally"} /\ noWords) => words[r] = <<>>
            /\ (pc[r] \in {"align_return", "swa_return"} /\ noWords) =>
                    (words[r] = <<>> /\ exc[r] = NoExc)
            /\ (pc[r] = "done" /\ engineCalls[r] = 1 /\ exc[r] = NoExc
                    /\ noWords) =>
                    /\ resp[r].status = 200
                    /\ resp[r].kind = (IF req[r].kind = "align" THEN "align"
                                                              ELSE "combined")
                    /\ resp[r].words = <<>>

\* an align request answered 200 with no words after two segments without
\* words
C13_Witness ==
    \E r \in Requests :
        /\ req[r].kind = "align"
        /\ pc[r] = "done"
        /\ segments[r] = << <<>>, <<>> >>
        /\ resp[r].status = 200
        /\ resp[r].kind = "align"
        /\ resp[r].words = <<>>

(***************************************************************************)
(* C14: if the model fails at any point of an engine call, also after      *)
(* segments and words have been consumed, the call ends with the           *)
(* exception, never with a return, and the response is 500 without any of  *)
(* the words collected so far.  A response that carries words is a 200 of  *)
(* a call that returned, and carries all of its words.                     *)
(***************************************************************************)
C14_NoPartialWords ==
    \A r \in Requests :
        /\ pc[r] \in {"align_return", "swa_return"} => exc[r] = NoExc
        /\ (pc[r] = "done" /\ exc[r].type = "Exception") =>
                /\ resp[r].status = 500
                /\ resp[r].kind = "error"
                /\ resp[r].words = <<>>
        /\ resp[r].words # <<>> =>
                /\ exc[r] = NoExc
                /\ resp[r].status = 200
                /\ resp[r].words = words[r]

\* the model failed after a segment of three words
C14_Witness ==
    \E r \in Requests :
        /\ pc[r] = "done"
        /\ exc[r] = Exception("model failed")
        /\ Len(segments[r]) = 1
        /\ Len(words[r]) = 3
        /\ resp[r].status = 500
        /\ resp[r].words = <<>>

(***************************************************************************)
(* C15: in every speech_with_alignment request, once the synthesis call    *)
(* has returned 200, the engine is eventually invoked and the invocation   *)
(* eventually ends, by return or by failure, with no temp file of its own  *)
(* left, whether or not the client has closed its connection.              *)
(***************************************************************************)
C15_AlignmentRunsToCompletion ==
    \A r \in Requests :
        (req[r].kind = "swa" /\ pc[r] = "swa_status"
            /\ tts_response[r].status_code = 200)
        ~> (engineCalls[r] = 1 /\ ~InEngine(r)
            /\ created[r] \cap DOMAIN disk = {})

(***************************************************************************)
(* C16: within one request the backend is called at most once and the      *)
(* engine is invoked at most once.  Once a request has failed (an          *)
(* exception is in flight in its handler, or its response is an error) it  *)
(* is on its way to the response: no backend call of it is out, it makes   *)
(* no further backend or engine call, and the one error response it gets   *)
(* is never replaced by another.                                           *)
(***************************************************************************)
C16_NoRetries ==
    /\ [](\A r \in Requests :
            /\ backendCalls[r] <= 1
            /\ engineCalls[r] <= 1
            /\ exc[r] # NoExc =>
                /\ pc[r] \in {"finally", "align_except", "swa_except", "done"}
                /\ net[r] = "idle"
            /\ (pc[r] = "done" /\ exc[r] # NoExc) => resp[r].kind = "error"
            /\ resp[r] # NoResponse => pc[r] = "done")
    /\ [][\A r \in Requests :
            /\ (exc[r] # NoExc \/ resp[r].kind = "error") =>
                /\ backendCalls'[r] <= backendCalls[r]
                /\ engineCalls'[r] <= engineCalls[r]
                /\ acquires'[r] <= acquires[r]
            /\ resp[r] # NoResponse => resp'[r] \in {resp[r], NoResponse}
         ]_vars

\* the backend could not be reached: one call, one 503, no engine call,
\* while another request is in flight
C16_Witness ==
    \E r, q \in Requests :
        /\ q # r
        /\ pc[q] \notin {"idle", "queued"}
        /\ req[r].kind = "swa"
        /\ pc[r] = "done"
        /\ exc[r] = RequestError
        /\ backendCalls[r] = 1
        /\ engineCalls[r] = 0
        /\ resp[r].status = 503

(***************************************************************************)
(* C17: under any interleaving of requests, the temp file of an engine     *)
(* call is its own.  No two calls use the same file; the file a call       *)
(* creates is new, not one that exists already; the file the model reads   *)
(* holds the audio of its own call; and a file that is deleted is deleted  *)
(* by the call that created it and is in use by no call afterwards.        *)
(***************************************************************************)
C17_TempFilesRequestLocal ==
    /\ [](LET \* the files the engine call of request r has in use
              InUse(r) ==
                  {n \in TempNames :
                      \/ n = f[r]
                      \/ (n = temp_path[r]
                          /\ pc[r] \in {"transcribe", "segments", "finally"})}
          IN  \A r \in Requests :
                /\ \A q \in Requests \ {r} :
                    /\ InUse(r) \cap InUse(q) = {}
                    /\ created[r] \cap created[q] = {}
                /\ InUse(r) \subseteq created[r]
                /\ pc[r] \in {"transcribe", "segments"} =>
                    /\ temp_path[r] \in DOMAIN disk
                    /\ disk[temp_path[r]] = audio_bytes[r])
    /\ [][\A r \in Requests :
            /\ (created'[r] \ created[r]) \cap DOMAIN disk = {}
            /\ pc[r] = "finally" =>
                    (DOMAIN disk \ DOMAIN disk') \subseteq created[r]
            /\ pc[r] # "finally" =>
                    (DOMAIN disk \ DOMAIN disk') \cap created[r] = {}
         ]_vars

\* the model reads the file of its own call while another request awaits the
\* backend and a file left by an earlier call is on disk
C17_Witness ==
    \E r, q \in Requests :
        /\ q # r
        /\ pc[r] = "segments"
        /\ pc[q] = "swa_await"
        /\ Len(audio_bytes[r]) > 0
        /\ disk[temp_path[r]] = audio_bytes[r]
        /\ \E n \in DOMAIN disk : n # temp_path[r] /\ disk[n] # audio_bytes[r]

(***************************************************************************)
(* C18: at every moment at most one engine call is in progress and at most *)
(* one engine temp file exists, whatever number of requests is pending.    *)
(***************************************************************************)
C18_EngineExclusive ==
    /\ Cardinality({r \in Requests : InEngine(r)}) <= 1
    /\ Cardinality(DOMAIN disk) <= 1

(***************************************************************************)
(* C19: in speech_with_alignment an empty-string hint is treated as an     *)
(* absent one: the heuristic runs once on the input text and its result,   *)
(* one of ja, zh, en, is the language the engine gets.  In align the hint, *)
(* absent, empty or a code, is the language the engine gets, unchanged,    *)
(* and the heuristic is never run.                                         *)
(***************************************************************************)
C19_EmptyHintByOperation ==
    \A r \in Requests :
        engineCalls[r] > 0 =>
            /\ (req[r].kind = "swa" /\ req[r].language = "") =>
                LET text == req[r].input
                    kana == \E i \in DOMAIN text :
                                \/ text[i] \in 12352..12447
                                \/ text[i] \in 12448..12543
                    ideograph == \E i \in DOMAIN text : text[i] \in 19968..40959
                IN  /\ heuristicRuns[r] = 1
                    /\ language[r] = IF kana THEN "ja"
                                     ELSE IF ideograph THEN "zh" ELSE "en"
            /\ req[r].kind = "align" =>
                /\ heuristicRuns[r] = 0
                /\ language[r] = req[r].language

\* an align request with an empty hint: the model gets the empty string
C19_Witness ==
    \E r \in Requests :
        /\ req[r].kind = "align"
        /\ req[r].language = ""
        /\ pc[r] = "segments"
        /\ language[r] = ""
        /\ heuristicRuns[r] = 0

====
